---- MODULE Spec2Model ----
(***************************************************************************)
(* Layer depth order task generator (src/src/generator.py, config.py,      *)
(* prompts.py): one call of TaskGenerator.generate_task_pair, step by      *)
(* step.  An image is modelled by what was drawn on it, in drawing order:  *)
(* the sequence of _draw_shape calls (the shape as drawn), the text        *)
(* labels and the arrow.  The scene's shape dicts are a heap indexed       *)
(* 1..n; sorted() yields references (indices) into it, as in Python.       *)
(***************************************************************************)
EXTENDS Integers, Sequences, FiniteSets, TLC

VARIABLES config, video_generator, pc, task_data, scene0, first_image,
          final_image, shapes, final_positions, frames, loop_i, encoder_result,
          video_path, task_pair, rerender

vars == <<config, video_generator, pc, task_data, scene0, first_image,
          final_image, shapes, final_positions, frames, loop_i, encoder_result,
          video_path, task_pair, rerender>>

(* ------------------------------ bounds -------------------------------- *)

\* Largest max_shapes a sampled configuration has.
MaxShapes == 3

(* -------------------------- program constants ------------------------- *)

spread == 60
margin == 40
hold_frames == 5
animation_frames == 25
arrow_y == 45
min_shape_size == 80
max_shape_size == 150

shape_types == <<"circle", "square", "triangle">>

\* A two-colour palette: shorter than the largest scene, so that the
\* i % len(available_colors) of line 77 wraps.
shape_colors == <<"red", "green">>

PROMPTS == <<"identify_then_separate", "determine_front_back", "figure_out_order">>

\* Sampled canvas sizes: the default, and a small non-square one.
ImageSizes == {<<512, 512>>, <<64, 48>>}

\* Sampled outcomes of the four draws of one loop iteration (lines 72-76):
\* <<x offset, y offset, size, index into shape_types>>, each within the
\* range its randint / choice draws from.
ShapeDraws ==
    { <<-59, 0, min_shape_size, 1>>,
      <<57, -spread, min_shape_size, 2>>,
      <<57, spread, max_shape_size, 3>>,
      <<-spread, spread, max_shape_size, 1>> }

\* The task_id generate_task_pair is called with.
task_id == "task_0000"

(* ------------------------------ helpers ------------------------------- *)

Abs(a) == IF a < 0 THEN -a ELSE a

Min(S) == CHOOSE a \in S : \A b \in S : a <= b

RECURSIVE Gcd(_, _)
Gcd(a, b) == IF b = 0 THEN a ELSE Gcd(b, a % b)

RECURSIVE IsPow2(_)
IsPow2(m) == IF m = 1 THEN TRUE ELSE IF m % 2 = 1 THEN FALSE ELSE IsPow2(m \div 2)

\* The permutations of a sequence: the outcomes of random.shuffle.
Shuffles(s) ==
    { [i \in 1..Len(s) |-> s[p[i]]] :
        p \in { q \in [1..Len(s) -> 1..Len(s)] :
                  \A i, j \in 1..Len(s) : i # j => q[i] # q[j] } }

NoImage == [size |-> <<0, 0>>, draws |-> <<>>, labels |-> <<>>, arrow |-> <<>>]

NoTaskData == [shapes |-> <<>>, num_shapes |-> 0, type |-> "none"]

NoTaskPair ==
    [task_id |-> "None", domain |-> "None", prompt |-> "None",
     first_image |-> NoImage, final_image |-> NoImage,
     ground_truth_video |-> "None"]

(* --------------------------- _generate_task_data ---------------------- *)

\* MakeShape with the layer counted from 1.
MakeShapeOneBased(i, d, available_colors, width, height) ==
    [x |-> (width \div 2) + d[1],
     y |-> (height \div 2) + d[2],
     size |-> d[3],
     type |-> shape_types[d[4]],
     color |-> available_colors[(i % Len(available_colors)) + 1],
     layer |-> i + 1]

\* The dict appended in iteration i (0-based) of the loop, lines 70-86.
MakeShape(i, d, available_colors, width, height) ==
    [x |-> (width \div 2) + d[1],
     y |-> (height \div 2) + d[2],
     size |-> d[3],
     type |-> shape_types[d[4]],
     color |-> available_colors[(i % Len(available_colors)) + 1],
     layer |-> i]

\* The dict _generate_task_data returns, for the drawn num_shapes, the
\* shuffled palette and the per-iteration draws.
TaskDataOf(num_shapes, available_colors, draws, width, height) ==
    [shapes |-> [k \in 1..num_shapes |->
                    MakeShape(k - 1, draws[k], available_colors, width, height)],
     num_shapes |-> num_shapes,
     type |-> "default"]

\* random.randint(min_shapes, max_shapes), line 56.
NumShapesChoices == config.min_shapes .. config.max_shapes

GenerateTaskData ==
    /\ pc = "idle"
    /\ \E num_shapes \in NumShapesChoices :
       \E available_colors \in Shuffles(config.shape_colors) :
       \E draws \in [1..num_shapes -> ShapeDraws] :
          /\ task_data' = TaskDataOf(num_shapes, available_colors, draws,
                                     config.image_size[1], config.image_size[2])
          /\ scene0' = task_data'
    /\ pc' = "render_initial"
    /\ UNCHANGED <<config, video_generator, first_image, final_image, shapes,
                   final_positions, frames, loop_i, encoder_result, video_path,
                   task_pair, rerender>>

(* ------------------------------- sorted ------------------------------- *)

\* Before with reverse=True forgotten.
BeforeIgnoringReverse(heap, a, b, reverse) == heap[a].layer < heap[b].layer

\* Whether the shape at reference a sorts strictly before the one at b.
Before(heap, a, b, reverse) ==
    IF reverse THEN heap[a].layer > heap[b].layer
               ELSE heap[a].layer < heap[b].layer

\* sorted(...) is stable: r goes after every element it does not precede.
InsertRef(heap, sorted, r, reverse) ==
    LET later == { i \in 1..Len(sorted) : Before(heap, r, sorted[i], reverse) }
        pos == IF later = {} THEN Len(sorted) + 1 ELSE Min(later)
    IN  SubSeq(sorted, 1, pos - 1) \o <<r>> \o SubSeq(sorted, pos, Len(sorted))

RECURSIVE SortedUpTo(_, _, _)
SortedUpTo(heap, k, reverse) ==
    IF k = 0 THEN <<>>
    ELSE InsertRef(heap, SortedUpTo(heap, k - 1, reverse), k, reverse)

\* sorted(task_data["shapes"], key=layer, reverse=...): references to the
\* scene's dicts, in sorted order.
SortedByLayer(heap, reverse) == SortedUpTo(heap, Len(heap), reverse)

(* ----------------------------- _draw_shape ---------------------------- *)

\* What one _draw_shape(img, shape, offset_x, offset_y) call puts on the
\* image: the shape at (x + offset_x, y + offset_y); the dict is only read.
DrawShape(shape, offset_x, offset_y) ==
    [shape EXCEPT !.x = shape.x + offset_x, !.y = shape.y + offset_y]

(* -------------------------- _render_overlapping ----------------------- *)

RenderOverlapping(data, size) ==
    LET order == SortedByLayer(data.shapes, FALSE)
    IN  [size |-> size,
         draws |-> [i \in 1..Len(order) |-> DrawShape(data.shapes[order[i]], 0, 0)],
         labels |-> <<>>,
         arrow |-> <<>>]

(* --------------------------- _render_separated ------------------------ *)

\* spacing = available_width // (num_shapes + 1), lines 148-149.
SeparatedSpacing(width, num_shapes) == (width - 2 * margin) \div (num_shapes + 1)

\* (new_x, new_y) of the shape at 0-based index i of the loop, lines 175-176.
SeparatedPosition(i, width, height, num_shapes) ==
    <<margin + SeparatedSpacing(width, num_shapes) * (i + 1), height \div 2>>

\* TempShapeRef without the copy: temp_shape is the scene's own dict.
TempShapeAlias(ref) == ref

\* The object temp_shape is bound to (lines 179, 246): shape.copy() is a
\* new dict, written as reference 0; any other value is a scene reference.
TempShapeRef(ref) == 0

\* temp_shape["x"] = x; temp_shape["y"] = y, seen from the scene's heap.
StoreXY(heap, target, x, y) ==
    IF target = 0 THEN heap
    ELSE [heap EXCEPT ![target].x = x, ![target].y = y]

\* The loop of lines 174-187 up to (1-based) iteration k: the heap, the
\* shapes drawn and the rank labels written so far.
RECURSIVE SeparatedLoop(_, _, _, _, _)
SeparatedLoop(heap0, order, k, width, height) ==
    IF k = 0 THEN [heap |-> heap0, draws |-> <<>>, labels |-> <<>>]
    ELSE LET st == SeparatedLoop(heap0, order, k - 1, width, height)
             ref == order[k]
             new == SeparatedPosition(k - 1, width, height, Len(order))
             target == TempShapeRef(ref)
             heap1 == StoreXY(st.heap, target, new[1], new[2])
             temp_shape == [st.heap[ref] EXCEPT !.x = new[1], !.y = new[2]]
         IN  [heap |-> heap1,
              draws |-> Append(st.draws, DrawShape(temp_shape, 0, 0)),
              labels |-> Append(st.labels,
                           [x |-> new[1] - 5,
                            y |-> new[2] + (heap1[ref].size \div 2) + 10,
                            text |-> ToString(k)])]

\* _render_separated: the image, and the scene's heap after the call.
RenderSeparated(data, size) ==
    LET width == size[1]
        height == size[2]
        order == SortedByLayer(data.shapes, TRUE)
        loop == SeparatedLoop(data.shapes, order, Len(order), width, height)
    IN  [image |->
            [size |-> size,
             draws |-> loop.draws,
             labels |-> <<[x |-> margin, y |-> 30, text |-> "FRONT"],
                          [x |-> width - margin - 40, y |-> 30, text |-> "BACK"]>>
                       \o loop.labels,
             arrow |-> <<<<margin + 50, arrow_y>>, <<width - margin - 50, arrow_y>>>>],
         heap |-> loop.heap]

RenderInitialState ==
    /\ pc = "render_initial"
    /\ first_image' = RenderOverlapping(task_data, config.image_size)
    /\ pc' = "render_final"
    /\ UNCHANGED <<config, video_generator, task_data, scene0, final_image,
                   shapes, final_positions, frames, loop_i, encoder_result,
                   video_path, task_pair, rerender>>

RenderFinalState ==
    /\ pc = "render_final"
    /\ LET r == RenderSeparated(task_data, config.image_size)
       IN  /\ final_image' = r.image
           /\ task_data' = [task_data EXCEPT !.shapes = r.heap]
    /\ pc' = "video_check"
    /\ UNCHANGED <<config, video_generator, scene0, first_image, shapes,
                   final_positions, frames, loop_i, encoder_result, video_path,
                   task_pair, rerender>>

(* ----------------------------- _generate_video ------------------------ *)

\* VideoSpacing with one margin only.
VideoSpacingOneMargin(width, num_shapes) == (width - margin) \div (num_shapes + 1)

\* spacing = available_width // (num_shapes + 1), lines 216-217.
VideoSpacing(width, num_shapes) == (width - 2 * margin) \div (num_shapes + 1)

\* final_positions, lines 219-223.
FinalPositions(width, height, num_shapes) ==
    [k \in 1..num_shapes |->
        <<margin + VideoSpacing(width, num_shapes) * ((k - 1) + 1), height \div 2>>]

\* Progress dividing by the number of frames.
ProgressOverFrames(frame_idx) == [num |-> frame_idx, den |-> animation_frames]

\* progress = frame_idx / (animation_frames - 1), line 231, as a fraction.
Progress(frame_idx) == [num |-> frame_idx, den |-> animation_frames - 1]

\* progress = 1 - (1 - progress) ** 2, line 233, as a fraction.
EaseOut(p) == [num |-> p.den * p.den - (p.den - p.num) * (p.den - p.num),
               den |-> p.den * p.den]

\* int() of a float truncates toward zero.
TruncDiv(a, b) == IF a >= 0 THEN a \div b ELSE -((-a) \div b)

\* Whether the float computation of lines 231-244 is exact: the fraction
\* frame_idx / (animation_frames - 1) is dyadic (then every intermediate
\* value has a few bits only), or the shape does not move on this axis.
FloatExact(start, end, frame_idx) ==
    LET p == Progress(frame_idx)
    IN  \/ end = start
        \/ IsPow2(p.den \div Gcd(p.den, p.num))

\* The values int(start + (end - start) * progress) can take (lines 243-248).
\* A value that is not an integer is at least 1/den away from one, far more
\* than the rounding error, and truncates as the exact value does.  An
\* integral value computed inexactly may land on either side of the integer:
\* both truncations are outcomes.
InterpolatedInts(start, end, frame_idx) ==
    LET e == EaseOut(Progress(frame_idx))
        n == start * e.den + (end - start) * e.num
    IN  IF n % e.den # 0 \/ FloatExact(start, end, frame_idx)
        THEN {TruncDiv(n, e.den)}
        ELSE {TruncDiv(n - 1, e.den), TruncDiv(n + 1, e.den)}

\* The inner loop of lines 238-250 up to (1-based) iteration k, for one
\* frame: the possible (heap, shapes drawn) outcomes.
RECURSIVE TransitionLoop(_, _, _, _, _)
TransitionLoop(heap0, order, positions, frame_idx, k) ==
    IF k = 0 THEN {[heap |-> heap0, draws |-> <<>>]}
    ELSE UNION {
           LET ref == order[k]
               shape == st.heap[ref]
           IN  { [heap |-> StoreXY(st.heap, TempShapeRef(ref), cx, cy),
                  draws |-> Append(st.draws,
                              DrawShape([shape EXCEPT !.x = cx, !.y = cy], 0, 0))] :
                    cx \in InterpolatedInts(shape.x, positions[k][1], frame_idx),
                    cy \in InterpolatedInts(shape.y, positions[k][2], frame_idx) }
           : st \in TransitionLoop(heap0, order, positions, frame_idx, k - 1) }

\* VideoWanted without the test of the encoder.
VideoWantedUnchecked == config.generate_videos

\* The guard of line 40.
VideoWanted == config.generate_videos /\ video_generator # "None"

\* Lines 206-223: the call of _generate_video up to the first loop.
EnterGenerateVideo ==
    /\ pc = "video_check"
    /\ VideoWanted
    /\ shapes' = SortedByLayer(task_data.shapes, TRUE)
    /\ final_positions' = FinalPositions(config.image_size[1], config.image_size[2],
                                         Len(shapes'))
    /\ frames' = <<>>
    /\ loop_i' = 0
    /\ pc' = "hold_initial"
    /\ UNCHANGED <<config, video_generator, task_data, scene0, first_image,
                   final_image, encoder_result, video_path, task_pair, rerender>>

\* Line 39 with the guard of line 40 false.
SkipVideo ==
    /\ pc = "video_check"
    /\ ~VideoWanted
    /\ video_path' = "None"
    /\ pc' = "return"
    /\ UNCHANGED <<config, video_generator, task_data, scene0, first_image,
                   final_image, shapes, final_positions, frames, loop_i,
                   encoder_result, rerender, task_pair>>

\* One iteration of the loop of lines 226-227.
HoldInitial ==
    /\ pc = "hold_initial"
    /\ loop_i < hold_frames
    /\ frames' = Append(frames, first_image)
    /\ IF loop_i + 1 < hold_frames
       THEN loop_i' = loop_i + 1 /\ pc' = pc
       ELSE loop_i' = 0 /\ pc' = "animate"
    /\ UNCHANGED <<config, video_generator, task_data, scene0, first_image,
                   final_image, shapes, final_positions, encoder_result,
                   video_path, task_pair, rerender>>

\* One iteration (frame_idx = loop_i) of the loop of lines 230-252.
AnimateFrame ==
    /\ pc = "animate"
    /\ loop_i < animation_frames
    /\ \E out \in TransitionLoop(task_data.shapes, shapes, final_positions,
                                 loop_i, Len(shapes)) :
          /\ frames' = Append(frames, [size |-> config.image_size,
                                       draws |-> out.draws,
                                       labels |-> <<>>,
                                       arrow |-> <<>>])
          /\ task_data' = [task_data EXCEPT !.shapes = out.heap]
    /\ IF loop_i + 1 < animation_frames
       THEN loop_i' = loop_i + 1 /\ pc' = pc
       ELSE loop_i' = 0 /\ pc' = "hold_final"
    /\ UNCHANGED <<config, video_generator, scene0, first_image, final_image,
                   shapes, final_positions, encoder_result, video_path,
                   task_pair, rerender>>

\* HoldFinalCount without the doubling.
HoldFinalCountSingle == hold_frames

\* range(hold_frames * 2), line 255.
HoldFinalCount == hold_frames * 2

\* One iteration of the loop of lines 255-256.
HoldFinal ==
    /\ pc = "hold_final"
    /\ loop_i < HoldFinalCount
    /\ frames' = Append(frames, final_image)
    /\ IF loop_i + 1 < HoldFinalCount
       THEN loop_i' = loop_i + 1 /\ pc' = pc
       ELSE loop_i' = 0 /\ pc' = "encode"
    /\ UNCHANGED <<config, video_generator, task_data, scene0, first_image,
                   final_image, shapes, final_positions, encoder_result,
                   video_path, task_pair, rerender>>

\* temp_dir / f"{task_id}_ground_truth.mp4", lines 202-204.
VideoPathOf(id) == "layer_depth_videos/" \o id \o "_ground_truth.mp4"

\* What VideoGenerator.create_video_from_frames returns: the path, or
\* nothing when encoding fails.
EncoderResults(path) == {path, "None"}

\* Lines 258-259, and the return to line 41.  Calling a method of None
\* raises.
CreateVideo ==
    /\ pc = "encode"
    /\ IF video_generator = "None"
       THEN /\ pc' = "raised"
            /\ UNCHANGED <<encoder_result, video_path>>
       ELSE \E result \in EncoderResults(VideoPathOf(task_id)) :
               /\ encoder_result' = IF result = "None" THEN "failed" ELSE "ok"
               /\ video_path' = result
               /\ pc' = "return"
    /\ shapes' = <<>>
    /\ final_positions' = <<>>
    /\ frames' = <<>>
    /\ UNCHANGED <<config, video_generator, task_data, scene0, first_image,
                   final_image, loop_i, task_pair, rerender>>

(* ---------------------------- generate_task_pair ---------------------- *)

\* get_prompt(task_type): random.choice of the task type's prompts, with the
\* "default" list for an unknown type (prompts.py lines 13-15).
PromptChoices(task_type) == { PROMPTS[i] : i \in 1..Len(PROMPTS) }

\* Lines 43-52.
ReturnTaskPair ==
    /\ pc = "return"
    /\ \E prompt \in PromptChoices(task_data.type) :
          task_pair' = [task_id |-> task_id,
                        domain |-> config.domain,
                        prompt |-> prompt,
                        first_image |-> first_image,
                        final_image |-> final_image,
                        ground_truth_video |-> video_path]
    /\ pc' = "done"
    /\ UNCHANGED <<config, video_generator, task_data, scene0, first_image,
                   final_image, shapes, final_positions, frames, loop_i,
                   encoder_result, video_path, rerender>>

\* A further call of _render_overlapping on the scene of the returned pair.
RenderOverlappingAgain ==
    /\ pc = "done"
    /\ rerender' = RenderOverlapping(task_data, config.image_size)
    /\ UNCHANGED <<config, video_generator, pc, task_data, scene0, first_image,
                   final_image, shapes, final_positions, frames, loop_i,
                   encoder_result, video_path, task_pair>>

\* A further call of _render_separated on the scene of the returned pair.
RenderSeparatedAgain ==
    /\ pc = "done"
    /\ LET r == RenderSeparated(task_data, config.image_size)
       IN  /\ rerender' = r.image
           /\ task_data' = [task_data EXCEPT !.shapes = r.heap]
    /\ UNCHANGED <<config, video_generator, pc, scene0, first_image,
                   final_image, shapes, final_positions, frames, loop_i,
                   encoder_result, video_path, task_pair>>

\* The next call of generate_task_pair starts with fresh locals.
NextTask ==
    /\ pc = "done"
    /\ pc' = "idle"
    /\ task_data' = NoTaskData
    /\ scene0' = NoTaskData
    /\ first_image' = NoImage
    /\ final_image' = NoImage
    /\ encoder_result' = "not_called"
    /\ video_path' = "None"
    /\ task_pair' = NoTaskPair
    /\ rerender' = NoImage
    /\ UNCHANGED <<config, video_generator, shapes, final_positions, frames,
                   loop_i>>

(* ------------------------------ __init__ ------------------------------ *)

\* The configurations sampled: TaskConfig's defaults (config.py lines
\* 17-27) except for the canvas, the shape count bounds and the palette.
Configs ==
    { [domain |-> "layer_depth",
       image_size |-> sz,
       generate_videos |-> gv,
       min_shapes |-> lo,
       max_shapes |-> hi,
       min_shape_size |-> min_shape_size,
       max_shape_size |-> max_shape_size,
       shape_colors |-> shape_colors] :
         sz \in ImageSizes, gv \in BOOLEAN,
         lo \in 1..MaxShapes, hi \in 1..MaxShapes }

\* Lines 28-30: the generator's encoder, when videos are enabled and
\* VideoGenerator.is_available().
VideoGeneratorOf(cfg, is_available) ==
    IF cfg.generate_videos /\ is_available THEN "VideoGenerator" ELSE "None"

Init ==
    /\ config \in { c \in Configs : c.min_shapes <= c.max_shapes }
    /\ \E is_available \in BOOLEAN :
          video_generator = VideoGeneratorOf(config, is_available)
    /\ pc = "idle"
    /\ task_data = NoTaskData
    /\ scene0 = NoTaskData
    /\ first_image = NoImage
    /\ final_image = NoImage
    /\ shapes = <<>>
    /\ final_positions = <<>>
    /\ frames = <<>>
    /\ loop_i = 0
    /\ encoder_result = "not_called"
    /\ video_path = "None"
    /\ task_pair = NoTaskPair
    /\ rerender = NoImage

Next ==
    \/ GenerateTaskData
    \/ RenderInitialState
    \/ RenderFinalState
    \/ EnterGenerateVideo
    \/ SkipVideo
    \/ HoldInitial
    \/ AnimateFrame
    \/ HoldFinal
    \/ CreateVideo
    \/ ReturnTaskPair
    \/ RenderOverlappingAgain
    \/ RenderSeparatedAgain
    \/ NextTask

Spec == Init /\ [][Next]_vars

(* ======================= properties of the generator ================== *)

SceneMade == pc # "idle"

InVideo == pc \in {"hold_initial", "animate", "hold_final", "encode"}

\* How many transition frames the frame list holds.
TransitionCount ==
    IF pc = "animate" THEN loop_i
    ELSE IF pc \in {"hold_final", "encode"} THEN 25
    ELSE 0

\* The transition frame of animation index k (0-based).
TransitionFrame(k) == frames[5 + k + 1]

\* A scene the default configuration can produce: the default canvas,
\* 3 to 5 shapes, sizes within 80..150.
DefaultScene ==
    /\ SceneMade
    /\ config.image_size = <<512, 512>>
    /\ Len(scene0.shapes) \in 3..5
    /\ \A i \in 1..Len(scene0.shapes) : scene0.shapes[i].size \in 80..150

\* Whether the bounding extents (squares of half-extent size div 2 around
\* the position) of two placed shapes intersect.
ExtentsIntersect(a, b) ==
    /\ Abs(a.x - b.x) <= (a.size \div 2) + (b.size \div 2)
    /\ Abs(a.y - b.y) <= (a.size \div 2) + (b.size \div 2)

\* Whether a drawn shape is the scene's shape of its layer, moved or not.
SameShape(d, sh) ==
    /\ d.size = sh.size /\ d.type = sh.type
    /\ d.color = sh.color /\ d.layer = sh.layer

\* Whether a draw list draws every shape of the scene exactly once.
DrawsEachOnce(draws) ==
    /\ Len(draws) = Len(scene0.shapes)
    /\ \A i \in 1..Len(scene0.shapes) :
          Cardinality({ j \in 1..Len(draws) : SameShape(draws[j], scene0.shapes[i]) }) = 1

Ascending(draws) ==
    /\ \A i \in 1..Len(draws) : draws[i].layer = i - 1
    /\ \A i, j \in 1..Len(draws) : i < j => draws[i].layer < draws[j].layer

Descending(draws) ==
    /\ \A i \in 1..Len(draws) : draws[i].layer = Len(draws) - i
    /\ \A i, j \in 1..Len(draws) : i < j => draws[i].layer > draws[j].layer

\* C1: every scene _generate_task_data produces has between min_shapes and
\* max_shapes shapes, num_shapes equal to their number, and layer values
\* that are exactly 0..n-1, each once, the layer being the generation index.
C1_SceneLayers ==
    SceneMade =>
        LET sh == scene0.shapes
            n == Len(sh)
        IN  /\ config.min_shapes <= n /\ n <= config.max_shapes
            /\ scene0.num_shapes = n
            /\ \A L \in 0..(n - 1) :
                  Cardinality({ i \in 1..n : sh[i].layer = L }) = 1
            /\ \A i \in 1..n : sh[i].layer \in 0..(n - 1)
            /\ \A i \in 1..n : sh[i].layer = i - 1

C1_Witness ==
    /\ pc = "render_initial"
    /\ config.min_shapes = 1 /\ config.max_shapes = 3
    /\ scene0.num_shapes = 2

\* C2: the overlapping render draws the shapes in strictly ascending layer
\* order, the separated render and every transition frame in strictly
\* descending layer order, and each of them draws every shape exactly once.
C2_DrawOrder ==
    /\ first_image # NoImage =>
          Ascending(first_image.draws) /\ DrawsEachOnce(first_image.draws)
    /\ final_image # NoImage =>
          Descending(final_image.draws) /\ DrawsEachOnce(final_image.draws)
    /\ \A k \in 0..(TransitionCount - 1) :
          /\ Descending(TransitionFrame(k).draws)
          /\ DrawsEachOnce(TransitionFrame(k).draws)

C2_Witness ==
    /\ pc = "animate" /\ loop_i = 3
    /\ Len(scene0.shapes) = 3
    /\ TransitionFrame(2).draws[1].layer = 2
    /\ first_image.draws[1].layer = 0
    /\ final_image.draws[1].layer = 2

\* C3: in the separated render the shape of layer L is drawn (n-1-L)-th
\* from the left and labelled n-L: the front-most shape has the smallest x
\* and label 1, the back-most the largest x and label n, for every canvas
\* width.
C3_FrontLeftmost ==
    final_image # NoImage =>
        LET d == final_image.draws
            n == Len(d)
        IN  /\ \A i \in 1..n :
                  /\ d[i].layer = n - i
                  /\ final_image.labels[2 + i].text = ToString(n - d[i].layer)
                  /\ final_image.labels[2 + i].x = d[i].x - 5
            /\ \A i, j \in 1..n :
                  /\ d[i].layer = n - 1 => d[i].x <= d[j].x
                  /\ d[i].layer = 0 => d[i].x >= d[j].x
                  /\ d[i].layer > d[j].layer => d[i].x <= d[j].x

\* C4: the animation's target of the i-th shape in front-to-back order is
\* the position the separated render draws it at, which is
\* x = 40 + ((width - 80) div (n + 1)) * (i + 1), y = height div 2;
\* 148, 256, 364 for n = 3 and width 512, the canvas centre for n = 1.
C4_Layout ==
    LET w == config.image_size[1]
        h == config.image_size[2]
        d == final_image.draws
        n == Len(d)
    IN  /\ final_image # NoImage =>
              /\ \A i \in 1..n :
                    /\ d[i].x = 40 + ((w - 80) \div (n + 1)) * i
                    /\ d[i].y = h \div 2
              /\ (n = 3 /\ w = 512) =>
                    <<d[1].x, d[2].x, d[3].x>> = <<148, 256, 364>>
              /\ n = 1 => <<d[1].x, d[1].y>> = <<w \div 2, h \div 2>>
        /\ pc \in {"hold_initial", "animate", "hold_final"} =>
              /\ Len(final_positions) = n
              /\ \A i \in 1..n : final_positions[i] = <<d[i].x, d[i].y>>

C4_Witness ==
    /\ pc = "animate"
    /\ config.image_size[1] = 512
    /\ Len(final_positions) = 3
    /\ final_positions[1] = <<148, 256>>
    /\ final_image.draws[3].x = 364

\* The scene's shape a drawn shape is (the one of its layer).
SceneShapeOf(d) ==
    CHOOSE sh \in { scene0.shapes[i] : i \in 1..Len(scene0.shapes) } :
        sh.layer = d.layer

PhaseRank(p) ==
    CASE p = "hold_initial" -> 1
      [] p = "animate" -> 2
      [] p = "hold_final" -> 3
      [] p = "encode" -> 4
      [] OTHER -> 0

\* The frame list while _generate_video builds it: its length at each
\* point of the three loops, and each frame by its index.
C5_FramesSoFar ==
    InVideo =>
        /\ Len(frames) = (CASE pc = "hold_initial" -> loop_i
                            [] pc = "animate" -> 5 + loop_i
                            [] pc = "hold_final" -> 30 + loop_i
                            [] pc = "encode" -> 40)
        /\ \A f \in 1..Len(frames) :
              /\ f <= 5 => frames[f] = first_image /\ first_image.labels = <<>>
              /\ f > 30 => frames[f] = final_image /\ final_image.labels # <<>>
              /\ (f > 5 /\ f <= 30) =>
                    /\ frames[f].labels = <<>>
                    /\ Len(frames[f].draws) = Len(scene0.shapes)
                    /\ \A i \in 1..Len(frames[f].draws) :
                          LET c == frames[f].draws[i]
                              t == final_image.draws[i]
                              sh == SceneShapeOf(t)
                          IN  /\ SameShape(c, sh)
                              /\ c.x \in InterpolatedInts(sh.x, t.x, f - 6)
                              /\ c.y \in InterpolatedInts(sh.y, t.y, f - 6)

\* A step inside _generate_video appends one frame and never goes back to
\* an earlier phase.
C5_PhaseStep ==
    (InVideo /\ InVideo') =>
        /\ PhaseRank(pc') >= PhaseRank(pc)
        /\ Len(frames') = Len(frames) + 1
        /\ SubSeq(frames', 1, Len(frames)) = frames

\* C5: the frame list is built in the order hold-start, transition,
\* hold-end with no return to an earlier phase, and has 5 + 25 + 10 = 40
\* frames: 0..4 the overlapping render, 5..29 the transition frames for
\* k = 0..24 in increasing k, 30..39 the separated render.
C5_Frames == []C5_FramesSoFar /\ [][C5_PhaseStep]_vars

C5_Witness ==
    /\ pc = "encode"
    /\ Len(frames) = 40
    /\ Len(scene0.shapes) = 3
    /\ frames[5] = first_image
    /\ frames[31] = final_image
    /\ frames[6] # frames[30]

Between(a, c, b) == (a <= c /\ c <= b) \/ (b <= c /\ c <= a)

\* The exact value of start + (end - start) * p'(k), truncated.
ExactTrunc(start, end, k) ==
    LET num == start * 576 + (end - start) * (576 - (24 - k) * (24 - k))
    IN  IF num >= 0 THEN num \div 576 ELSE -((-num) \div 576)

\* C6: the eased progress p'(k) = 1 - (1 - k/24)^2 is non-decreasing in k
\* with p'(0) = 0 and p'(24) = 1; every shape is drawn at its original
\* position in transition frame 0 and at its layout target in transition
\* frame 24, and in between each drawn coordinate never moves away from
\* the target and never passes it.
C6_Easing ==
    /\ \A k \in 0..23 :
          LET a == EaseOut(Progress(k))
              b == EaseOut(Progress(k + 1))
          IN  a.num * b.den <= b.num * a.den
    /\ EaseOut(Progress(0)).num = 0
    /\ EaseOut(Progress(24)).num = EaseOut(Progress(24)).den
    /\ \A k \in 0..(TransitionCount - 1) :
       \A i \in 1..Len(TransitionFrame(k).draws) :
          LET c == TransitionFrame(k).draws[i]
              t == final_image.draws[i]
              sh == SceneShapeOf(c)
          IN  /\ k = 0 => (c.x = sh.x /\ c.y = sh.y)
              /\ k = 24 => (c.x = t.x /\ c.y = t.y)
              /\ Between(sh.x, c.x, t.x)
              /\ Between(sh.y, c.y, t.y)
              /\ k > 0 =>
                    LET b == TransitionFrame(k - 1).draws[i]
                    IN  /\ Abs(t.x - c.x) <= Abs(t.x - b.x)
                        /\ Abs(t.y - c.y) <= Abs(t.y - b.y)

\* All 25 transition frames are built, and in one of them a coordinate
\* computed inexactly fell below the exact integral value.
C6_Witness ==
    /\ pc = "hold_final"
    /\ \E k \in 1..23 :
       \E i \in 1..Len(TransitionFrame(k).draws) :
          LET c == TransitionFrame(k).draws[i]
              t == final_image.draws[i]
              sh == SceneShapeOf(c)
          IN  /\ c.x # ExactTrunc(sh.x, t.x, k)
              /\ c.x # sh.x /\ c.x # t.x

\* C7: generate_task_pair is never aborted by the video step and returns
\* a pair with both images; the video field is absent when videos are
\* disabled, when there is no encoder, or when the encoder produced no
\* file, and is a path only when videos are enabled, an encoder exists and
\* encoding succeeded.
C7_VideoOptional ==
    /\ pc # "raised"
    /\ pc = "done" =>
          /\ task_pair.first_image = first_image
          /\ task_pair.final_image = final_image
          /\ first_image # NoImage /\ final_image # NoImage
          /\ Len(task_pair.first_image.draws) = Len(scene0.shapes)
          /\ Len(task_pair.final_image.draws) = Len(scene0.shapes)
          /\ ~config.generate_videos => task_pair.ground_truth_video = "None"
          /\ video_generator = "None" => task_pair.ground_truth_video = "None"
          /\ encoder_result = "failed" => task_pair.ground_truth_video = "None"
          /\ task_pair.ground_truth_video # "None" =>
                /\ config.generate_videos
                /\ video_generator # "None"
                /\ encoder_result = "ok"
          /\ (config.generate_videos /\ video_generator # "None"
                /\ encoder_result = "ok") =>
                task_pair.ground_truth_video # "None"

C7_Witness ==
    /\ pc = "done"
    /\ config.generate_videos
    /\ video_generator = "None"
    /\ task_pair.ground_truth_video = "None"
    /\ task_pair.final_image.labels # <<>>

\* C8: in every scene the default configuration produces, each shape's
\* bounding extent intersects that of at least one other shape.
C8_Overlap ==
    DefaultScene =>
        \A i \in 1..Len(scene0.shapes) :
            \E j \in 1..Len(scene0.shapes) :
                j # i /\ ExtentsIntersect(scene0.shapes[i], scene0.shapes[j])

\* C9: in the separated render of every scene the default configuration
\* produces, no two shapes' bounding extents intersect: the spacing between
\* horizontally adjacent shapes is at least the sum of their half-extents.
C9_Separated ==
    (DefaultScene /\ final_image # NoImage) =>
        LET d == final_image.draws
        IN  /\ \A i \in 1..(Len(d) - 1) :
                  d[i + 1].x - d[i].x >= (d[i].size \div 2) + (d[i + 1].size \div 2)
            /\ \A i, j \in 1..Len(d) :
                  i # j => ~ExtentsIntersect(d[i], d[j])

\* C10: the scene is read-only after generation: no render and no step of
\* the animation changes the shape list or any shape's field, and a
\* repeated render yields the image the first one did.
C10_SceneReadOnly ==
    SceneMade =>
        /\ task_data = scene0
        /\ rerender # NoImage =>
              IF rerender.labels = <<>> THEN rerender = first_image
                                        ELSE rerender = final_image

C10_Witness ==
    /\ pc = "done"
    /\ encoder_result = "ok"
    /\ rerender # NoImage
    /\ rerender.labels # <<>>
    /\ Len(task_data.shapes) = 3

====
